---- MODULE Spec2Model ----
(***************************************************************************)
(* A model of the cuckoo map of src/src/lib.rs and src/src/bucket.rs: a    *)
(* fixed array of single-slot buckets (fingerprint, value), a length       *)
(* counter, and the operations get / insert / test_and_add / delete /      *)
(* clear, the bounded eviction chain of insert included.                   *)
(***************************************************************************)
EXTENDS Integers, Sequences, FiniteSets, TLC

VARIABLES buckets, len, last, hist, run

vars == <<buckets, len, last, hist, run>>

(***************************************************************************)
(* Bounds of the model.                                                    *)
(***************************************************************************)
\* largest capacity requested from with_capacity
MaxCap == 3
\* values are the bytes 0..MaxValue
MaxValue == 1
\* the length counter is only driven up to MaxCount
MaxCount == 4
\* usize is modelled with UsizeBits bits where its width matters
UsizeBits == 3
\* the indices 0..MaxIndex are the ones the alternate index is checked on
MaxIndex == 7

(***************************************************************************)
(* Program constants.                                                      *)
(***************************************************************************)
MAX_REBUCKET == 500
EMPTY_FINGERPRINT == 100
ByteRange == 256

Values == 0..MaxValue

(***************************************************************************)
(* Bit arithmetic on naturals.                                             *)
(***************************************************************************)
RECURSIVE Xor(_, _)
Xor(a, b) ==
    IF a = 0 THEN b
    ELSE IF b = 0 THEN a
    ELSE (((a % 2) + (b % 2)) % 2) + 2 * Xor(a \div 2, b \div 2)

RECURSIVE NextPowerOfTwoFrom(_, _)
NextPowerOfTwoFrom(p, n) == IF p >= n THEN p ELSE NextPowerOfTwoFrom(2 * p, n)

\* the number of values of usize
UsizeRange == 2 ^ UsizeBits

\* a faulty variant: the smallest power of two > n
next_power_of_two_above(n) == NextPowerOfTwoFrom(1, n + 1) % UsizeRange

\* usize::next_power_of_two: the smallest power of two >= n (1 for n = 0).
\* When that power of two is not a usize the release build returns 0 (the
\* debug build panics and builds no map).
next_power_of_two(n) == NextPowerOfTwoFrom(1, n) % UsizeRange

Max(a, b) == IF a >= b THEN a ELSE b

(***************************************************************************)
(* Fingerprint and Bucket (bucket.rs).                                     *)
(***************************************************************************)
FingerprintEmpty == EMPTY_FINGERPRINT

FingerprintIsEmpty(fp) == fp = EMPTY_FINGERPRINT

\* a faulty variant: from_data makes a fingerprint of any bytes
from_data_any(data) == [some |-> TRUE, fp |-> data]

\* Fingerprint::from_data: None for the sentinel, Some(data) otherwise
from_data(data) ==
    IF FingerprintIsEmpty(data) THEN [some |-> FALSE, fp |-> FingerprintEmpty]
    ELSE [some |-> TRUE, fp |-> data]

BucketNew == [fingerprint |-> FingerprintEmpty, value |-> 0]

\* a faulty variant: set accepts whatever the bucket holds
BucketSetAcceptsAny(b, fp) == TRUE

\* the condition under which Bucket::insert (called set) accepts
BucketSetAccepts(b, fp) == FingerprintIsEmpty(b.fingerprint) \/ b.fingerprint = fp

\* Bucket::insert, called set by the map: <<bucket after, returned bool>>
BucketSet(b, fp, value) ==
    IF BucketSetAccepts(b, fp)
    THEN <<[fingerprint |-> fp, value |-> value], TRUE>>
    ELSE <<b, FALSE>>

\* Bucket::delete, called reset by the map: <<bucket after, returned bool>>
BucketReset(b, fp) ==
    IF b.fingerprint = fp
    THEN <<[b EXCEPT !.fingerprint = FingerprintEmpty], TRUE>>
    ELSE <<b, FALSE>>

\* a faulty variant: clear resets the value and keeps the fingerprint
BucketClearKeepsFingerprint(b) == [b EXCEPT !.value = 0]

BucketClear(b) == BucketNew

(***************************************************************************)
(* The hashing scheme (util.rs is not part of the sources; modelled from   *)
(* the description of the scheme).  The hash family H is a fixed table:    *)
(* for each key a fingerprint hash byte and an index hash, and for each    *)
(* fingerprint an index hash.                                              *)
(***************************************************************************)
\* the hashes of the keys of the model: <<fingerprint hash byte, index hash>>.
\* The keys have different fingerprints; the second one hashes to the
\* sentinel byte; the first and the last have the same two candidate slots,
\* so that eviction chains of several kicks happen in a table of four slots.
KeyHashes == << <<7, 0>>, <<100, 1>>, <<0, 2>>, <<255, 1>> >>

Keys == DOMAIN KeyHashes

\* hash of a key
KeyHash(k) == KeyHashes[k]

\* index hash of a fingerprint's bytes
FpIndexHash(fp) ==
    CASE fp = 7 -> 1
      [] fp = 101 -> 3
      [] fp = 0 -> 2
      [] fp = 255 -> 5
      [] OTHER -> fp % 8

RECURSIVE ValidFingerprint(_)
\* perturb the hash byte until it is a representable fingerprint
ValidFingerprint(byte) ==
    IF from_data(byte).some THEN from_data(byte).fp
    ELSE ValidFingerprint((byte + 1) % ByteRange)

get_alt_index(fp, i) == Xor(i, FpIndexHash(fp))

\* the fingerprint and the two indices of each key
FaIs ==
    [k \in Keys |->
        LET fp == ValidFingerprint(KeyHash(k)[1])
            i1 == KeyHash(k)[2]
        IN  [fp |-> fp, i1 |-> i1, i2 |-> get_alt_index(fp, i1)]]

get_fai(k) == FaIs[k]

\* FaI::random_index: r is the random boolean drawn
random_index(fai, r) == IF r THEN fai.i1 ELSE fai.i2

(***************************************************************************)
(* CuckooMap (lib.rs), as functions of a map value m = [buckets, len].     *)
(***************************************************************************)
NumBuckets(b) == Cardinality(DOMAIN b)

with_capacity(cap) ==
    LET capacity == Max(1, next_power_of_two(cap))
    IN  [buckets |-> [i \in 0..(capacity - 1) |-> BucketNew], len |-> 0]

None == [some |-> FALSE, value |-> 0]
Some(v) == [some |-> TRUE, value |-> v]

\* a faulty variant: the second candidate slot is looked at first
get_second_first(m, k) ==
    LET fai == get_fai(k)
        n == NumBuckets(m.buckets)
    IN  IF m.buckets[fai.i2 % n].fingerprint = fai.fp
        THEN Some(m.buckets[fai.i2 % n].value)
        ELSE IF m.buckets[fai.i1 % n].fingerprint = fai.fp
        THEN Some(m.buckets[fai.i1 % n].value)
        ELSE None

get(m, k) ==
    LET fai == get_fai(k)
        n == NumBuckets(m.buckets)
    IN  IF m.buckets[fai.i1 % n].fingerprint = fai.fp
        THEN Some(m.buckets[fai.i1 % n].value)
        ELSE IF m.buckets[fai.i2 % n].fingerprint = fai.fp
        THEN Some(m.buckets[fai.i2 % n].value)
        ELSE None

\* a faulty variant: a successful set is not counted
PutCountNone(n) == n

\* the counter after a successful set
PutCount(n) == n + 1

\* a faulty variant: put stores the entry whatever the bucket holds
put_overwriting(m, i, fp, value) ==
    LET n == NumBuckets(m.buckets)
    IN  [m |-> [buckets |-> [m.buckets EXCEPT
                                ![i % n] = [fingerprint |-> fp, value |-> value]],
                len |-> PutCount(m.len)],
         ok |-> TRUE]

\* CuckooMap::put: [m |-> map after, ok |-> returned bool]
put(m, i, fp, value) ==
    LET n == NumBuckets(m.buckets)
        r == BucketSet(m.buckets[i % n], fp, value)
    IN  IF r[2]
        THEN [m |-> [buckets |-> [m.buckets EXCEPT ![i % n] = r[1]],
                     len |-> PutCount(m.len)],
              ok |-> TRUE]
        ELSE [m |-> m, ok |-> FALSE]

\* CuckooMap::remove: [m |-> map after, ok |-> returned bool]
remove(m, fp, i) ==
    LET n == NumBuckets(m.buckets)
        r == BucketReset(m.buckets[i % n], fp)
    IN  IF r[2]
        THEN [m |-> [buckets |-> [m.buckets EXCEPT ![i % n] = r[1]],
                     len |-> m.len - 1],
              ok |-> TRUE]
        ELSE [m |-> m, ok |-> FALSE]

\* a faulty variant: the loop runs once more
RebucketLimitOffByOne == MAX_REBUCKET + 1

\* the number of iterations of `for _ in 0..MAX_REBUCKET`
RebucketLimit == MAX_REBUCKET

\* a faulty variant: the entry in hand is not stored in place of the kicked one
RebucketStepNoStore(c) ==
    IF c.ret = "Ok" THEN c
    ELSE LET nb == NumBuckets(c.m.buckets)
             kicked_bucket == c.m.buckets[c.i % nb]
             m1 == c.m
             j == get_alt_index(kicked_bucket.fingerprint, c.i)
             p == put(m1, j, kicked_bucket.fingerprint, kicked_bucket.value)
         IN  IF p.ok
             THEN [m |-> p.m, i |-> j, current_bucket |-> kicked_bucket,
                   ret |-> "Ok", steps |-> c.steps + 1, from |-> c.i % nb]
             ELSE [m |-> m1, i |-> j, current_bucket |-> kicked_bucket,
                   ret |-> "NotEnoughSpace", steps |-> c.steps + 1,
                   from |-> c.i % nb]

\* a faulty variant: the next index is the alternate of the entry in hand
RebucketStepAltOfHand(c) ==
    IF c.ret = "Ok" THEN c
    ELSE LET nb == NumBuckets(c.m.buckets)
             kicked_bucket == c.m.buckets[c.i % nb]
             m1 == [c.m EXCEPT !.buckets[c.i % nb] = c.current_bucket]
             j == get_alt_index(c.current_bucket.fingerprint, c.i)
             p == put(m1, j, kicked_bucket.fingerprint, kicked_bucket.value)
         IN  IF p.ok
             THEN [m |-> p.m, i |-> j, current_bucket |-> kicked_bucket,
                   ret |-> "Ok", steps |-> c.steps + 1, from |-> c.i % nb]
             ELSE [m |-> m1, i |-> j, current_bucket |-> kicked_bucket,
                   ret |-> "NotEnoughSpace", steps |-> c.steps + 1,
                   from |-> c.i % nb]

\* one iteration of the eviction loop of insert.  c is the state of the loop:
\* the map m, the index i, the entry in hand current_bucket, the iterations
\* done (steps) and whether the loop has returned Ok
RebucketStep(c) ==
    IF c.ret = "Ok" THEN c
    ELSE LET nb == NumBuckets(c.m.buckets)
             kicked_bucket == c.m.buckets[c.i % nb]
             m1 == [c.m EXCEPT !.buckets[c.i % nb] = c.current_bucket]
             j == get_alt_index(kicked_bucket.fingerprint, c.i)
             p == put(m1, j, kicked_bucket.fingerprint, kicked_bucket.value)
         IN  IF p.ok
             THEN [m |-> p.m, i |-> j, current_bucket |-> kicked_bucket,
                   ret |-> "Ok", steps |-> c.steps + 1, from |-> c.i % nb]
             ELSE [m |-> m1, i |-> j, current_bucket |-> kicked_bucket,
                   ret |-> "NotEnoughSpace", steps |-> c.steps + 1,
                   from |-> c.i % nb]

\* what an iteration of the loop depends on
LoopState(c) == <<c.m, c.i, c.current_bucket>>

RECURSIVE RebucketFrom(_, _)
\* The loop state after n iterations of the eviction loop, given the loop
\* states seen[1], ..., seen[Len(seen)] after 0, ..., Len(seen) - 1 iterations.
\* An iteration that does not return is a function of LoopState alone, so
\* when the loop state after t iterations equals the one after an earlier
\* j iterations, the iterations from j on repeat with period t - j and the
\* state after n iterations is read off the states already computed.
RebucketFrom(seen, n) ==
    LET t == Len(seen) - 1
        c == seen[t + 1]
        back == {j \in 0..(t - 1) : LoopState(seen[j + 1]) = LoopState(c)}
    IN  IF t >= n \/ c.ret = "Ok" THEN c
        ELSE IF back # {}
        THEN LET j == CHOOSE x \in back : TRUE
                 period == t - j
                 off == (n - j) % period
                 at == IF off = 0 THEN t ELSE j + off
             IN  [seen[at + 1] EXCEPT !.steps = n]
        ELSE RebucketFrom(Append(seen, RebucketStep(c)), n)

\* n iterations of the eviction loop from loop state c
Rebucket(c, n) == RebucketFrom(<<c>>, n)

\* what insert reports: the map after, the result, the iterations of the
\* eviction loop, and the entry in hand when the loop gave up (dropped) with
\* the slot it was kicked from
Outcome(c) ==
    [m |-> c.m, ret |-> c.ret, steps |-> c.steps,
     dropped |-> IF c.ret = "Ok" THEN BucketNew ELSE c.current_bucket,
     from |-> c.from]

Direct(m) == [m |-> m, ret |-> "Ok", steps |-> 0, dropped |-> BucketNew, from |-> 0]

\* a faulty variant: the eviction loop starts next to the index drawn
insert_beside(m, k, value, r) ==
    LET fai == get_fai(k)
        p1 == put(m, fai.i1, fai.fp, value)
        p2 == put(m, fai.i2, fai.fp, value)
    IN  IF p1.ok THEN Direct(p1.m)
        ELSE IF p2.ok THEN Direct(p2.m)
        ELSE LET c0 == [m |-> m, i |-> random_index(fai, r) + 1,
                        current_bucket |-> [fingerprint |-> fai.fp, value |-> value],
                        ret |-> "NotEnoughSpace", steps |-> 0, from |-> 0]
             IN  Outcome(CHOOSE c \in {Rebucket(c0, RebucketLimit)} : TRUE)

\* CuckooMap::insert with random boolean r
insert(m, k, value, r) ==
    LET fai == get_fai(k)
        p1 == put(m, fai.i1, fai.fp, value)
        p2 == put(m, fai.i2, fai.fp, value)
    IN  IF p1.ok THEN Direct(p1.m)
        ELSE IF p2.ok THEN Direct(p2.m)
        ELSE LET c0 == [m |-> m, i |-> random_index(fai, r),
                        current_bucket |-> [fingerprint |-> fai.fp, value |-> value],
                        ret |-> "NotEnoughSpace", steps |-> 0, from |-> 0]
             IN  Outcome(CHOOSE c \in {Rebucket(c0, RebucketLimit)} : TRUE)

\* a faulty variant: test_and_add inserts without asking get first
test_and_add_unconditional(m, k, value, r) ==
    LET res == CHOOSE x \in {insert(m, k, value, r)} : TRUE
    IN  [res EXCEPT !.ret = IF res.ret = "Ok" THEN "OkTrue" ELSE res.ret]

\* CuckooMap::test_and_add
test_and_add(m, k, value, r) ==
    IF get(m, k).some
    THEN [Direct(m) EXCEPT !.ret = "OkFalse"]
    ELSE LET res == CHOOSE x \in {insert(m, k, value, r)} : TRUE
         IN  [res EXCEPT !.ret = IF res.ret = "Ok" THEN "OkTrue" ELSE res.ret]

\* a faulty variant: delete removes from both candidate slots (| instead of ||)
delete_both(m, k) ==
    LET fai == get_fai(k)
        r1 == remove(m, fai.fp, fai.i1)
        r2 == remove(r1.m, fai.fp, fai.i2)
    IN  [m |-> r2.m, ok |-> r1.ok \/ r2.ok]

\* CuckooMap::delete
delete(m, k) ==
    LET fai == get_fai(k)
        r1 == remove(m, fai.fp, fai.i1)
        r2 == remove(m, fai.fp, fai.i2)
    IN  IF r1.ok THEN r1 ELSE r2

is_empty(m) == m.len = 0

\* CuckooMap::clear
clear(m) ==
    IF is_empty(m) THEN m
    ELSE [buckets |-> [i \in DOMAIN m.buckets |-> BucketClear(m.buckets[i])],
          len |-> 0]

\* the number of filled buckets counted by density()
n_filled_buckets(m) ==
    Cardinality({i \in DOMAIN m.buckets : ~FingerprintIsEmpty(m.buckets[i].fingerprint)})

\* density() is n_filled_buckets / buckets.len(); it is 0 iff the numerator is
DensityIsZero(m) == n_filled_buckets(m) = 0

(***************************************************************************)
(* The state machine.  buckets and len are the fields of the map; last     *)
(* records the last operation called, its key, what it returned and the    *)
(* iterations its eviction loop ran.  hist and run are history variables:  *)
(* hist watches one key (SpecHist), run records a run of inserts of        *)
(* distinct keys into a fresh map (SpecRun).                               *)
(***************************************************************************)
map == [buckets |-> buckets, len |-> len]

\* stands for the key of an operation that takes none
NoKey == Len(KeyHashes) + 1

NoHist == [key |-> NoKey, some |-> FALSE, value |-> 0]

NoRun == [on |-> FALSE, ok |-> {}, failed |-> {}]

\* the map built by with_capacity(cap); last.cap records the capacity asked for
Built(cap) ==
    /\ buckets = with_capacity(cap).buckets
    /\ len = with_capacity(cap).len
    /\ last = [op |-> "with_capacity", key |-> NoKey, ret |-> "none", steps |-> 0,
               cap |-> cap]

InitMap == \E cap \in 0..MaxCap : Built(cap)

Init == InitMap /\ hist = NoHist /\ run = NoRun

\* the random booleans insert(k, _) can draw: thread_rng is only drawn from
\* once both puts have failed, so one value stands for the draw otherwise
Draws(m, k) ==
    LET fai == get_fai(k)
        n == NumBuckets(m.buckets)
    IN  IF BucketSetAccepts(m.buckets[fai.i1 % n], fai.fp)
           \/ BucketSetAccepts(m.buckets[fai.i2 % n], fai.fp)
        THEN {TRUE}
        ELSE BOOLEAN

\* the map becomes m
Becomes(m) == buckets' = m.buckets /\ len' = m.len

Insert(k, v, r) ==
    /\ len < MaxCount
    /\ \E res \in {insert(map, k, v, r)} :
           /\ Becomes(res.m)
           /\ last' = [op |-> "insert", key |-> k, ret |-> res.ret, steps |-> res.steps]

TestAndAdd(k, v, r) ==
    /\ len < MaxCount
    /\ \E res \in {test_and_add(map, k, v, r)} :
           /\ Becomes(res.m)
           /\ last' = [op |-> "test_and_add", key |-> k, ret |-> res.ret, steps |-> res.steps]

Delete(k) ==
    \E res \in {delete(map, k)} :
        /\ Becomes(res.m)
        /\ last' = [op |-> "delete", key |-> k,
                    ret |-> IF res.ok THEN "true" ELSE "false", steps |-> 0]

\* clear returns nothing; ret records whether it took the early return
Clear ==
    /\ Becomes(clear(map))
    /\ last' = [op |-> "clear", key |-> NoKey,
                ret |-> IF is_empty(map) THEN "early" ELSE "cleared", steps |-> 0]

Next ==
    \/ \E k \in Keys, v \in Values : \E r \in Draws(map, k) : Insert(k, v, r) /\ UNCHANGED <<hist, run>>
    \/ \E k \in Keys, v \in Values : \E r \in Draws(map, k) : TestAndAdd(k, v, r) /\ UNCHANGED <<hist, run>>
    \/ \E k \in Keys : Delete(k) /\ UNCHANGED <<hist, run>>
    \/ Clear /\ UNCHANGED <<hist, run>>

Spec == Init /\ [][Next]_vars

(***************************************************************************)
(* SpecGet: the same operations and get; get takes &self.                  *)
(***************************************************************************)
Get(k) ==
    \E res \in {get(map, k)} :
        /\ last' = [op |-> "get", key |-> k,
                    ret |-> IF res.some THEN "Some" ELSE "None", steps |-> 0,
                    value |-> res.value]
        /\ UNCHANGED <<buckets, len>>

NextGet ==
    \/ Next
    \/ \E k \in Keys : Get(k) /\ UNCHANGED <<hist, run>>

SpecGet == Init /\ [][NextGet]_vars

(***************************************************************************)
(* SpecCap: the same operations on a map built for any capacity a usize    *)
(* can hold.                                                               *)
(***************************************************************************)
InitCap == (\E cap \in 0..(UsizeRange - 1) : Built(cap)) /\ hist = NoHist /\ run = NoRun

SpecCap == InitCap /\ [][Next]_vars

(***************************************************************************)
(* SpecHist: the same operations, with hist watching the key hist.key.     *)
(* hist.some holds while the most recent insert of the watched key         *)
(* returned Ok and the key has not since been deleted nor been the entry   *)
(* dropped by a failing eviction loop; hist.value is the value of that     *)
(* insert.                                                                 *)
(***************************************************************************)
InitHist ==
    /\ InitMap
    /\ \E w \in Keys : hist = [key |-> w, some |-> FALSE, value |-> 0]
    /\ run = NoRun

Forgotten == [hist EXCEPT !.some = FALSE, !.value = 0]

\* hist after insert(k, v) with outcome res
HistAfterInsert(k, v, res) ==
    IF k = hist.key
    THEN IF res.ret = "NotEnoughSpace" THEN Forgotten
         ELSE [hist EXCEPT !.some = TRUE, !.value = v]
    ELSE IF res.ret = "NotEnoughSpace"
            /\ res.dropped.fingerprint = get_fai(hist.key).fp
    THEN Forgotten
    ELSE hist

InsertH(k, v, r) ==
    /\ Insert(k, v, r)
    /\ hist' = HistAfterInsert(k, v, insert(map, k, v, r))

TestAndAddH(k, v, r) ==
    /\ TestAndAdd(k, v, r)
    /\ hist' = IF get(map, k).some THEN hist
               ELSE HistAfterInsert(k, v, insert(map, k, v, r))

DeleteH(k) ==
    /\ Delete(k)
    /\ hist' = IF k = hist.key THEN Forgotten ELSE hist

ClearH == Clear /\ hist' = Forgotten

NextHist ==
    \/ \E k \in Keys, v \in Values : \E r \in Draws(map, k) : InsertH(k, v, r) /\ UNCHANGED run
    \/ \E k \in Keys, v \in Values : \E r \in Draws(map, k) : TestAndAddH(k, v, r) /\ UNCHANGED run
    \/ \E k \in Keys : DeleteH(k) /\ UNCHANGED run
    \/ ClearH /\ UNCHANGED run

SpecHist == InitHist /\ [][NextHist]_vars

(***************************************************************************)
(* SpecRun: the loop of tests/false_positive_rate.rs, a run of inserts of  *)
(* distinct keys into a fresh map that stops at the first failing insert.  *)
(* run.ok holds the keys whose insert returned Ok, run.failed the key      *)
(* whose insert failed.                                                    *)
(***************************************************************************)
InitRun == InitMap /\ hist = NoHist /\ run = [on |-> TRUE, ok |-> {}, failed |-> {}]

RunInsert(k, v, r) ==
    /\ run.failed = {}
    /\ k \notin run.ok
    /\ Insert(k, v, r)
    /\ run' = IF insert(map, k, v, r).ret = "Ok"
              THEN [run EXCEPT !.ok = @ \cup {k}]
              ELSE [run EXCEPT !.failed = {k}]

NextRun == \E k \in Keys, v \in Values : \E r \in Draws(map, k) : RunInsert(k, v, r) /\ UNCHANGED hist

SpecRun == InitRun /\ [][NextRun]_vars

TypeOK == len \in 0..MaxCount

(***************************************************************************)
(* Helpers of the properties.                                              *)
(***************************************************************************)
\* the map after the step
mapAfter == [buckets |-> buckets', len |-> len']

\* the slots of m that hold fingerprint fp among the candidate slots of k
SlotsHolding(m, k) ==
    LET fai == get_fai(k)
        n == NumBuckets(m.buckets)
    IN  {s \in {fai.i1 % n, fai.i2 % n} : m.buckets[s].fingerprint = fai.fp}

\* the slots in which the bucket arrays a and b differ
Changed(a, b) == {s \in DOMAIN a : a[s] # b[s]}

(***************************************************************************)
(* C1: in every reachable state len() equals the number of buckets whose   *)
(* fingerprint is not the empty sentinel.                                  *)
(***************************************************************************)
C1_LenIsOccupied == len = n_filled_buckets(map)

(***************************************************************************)
(* C2: while the most recent insert of a key returned Ok and the key has   *)
(* not since been deleted or dropped by a failing eviction loop, get(key)  *)
(* returns the value of that insert (checked for the watched key of        *)
(* SpecHist, which is any key).                                            *)
(***************************************************************************)
C2_NoFalseNegative == hist.some => get(map, hist.key) = Some(hist.value)

(***************************************************************************)
(* C3: whenever insert(key, value) returns NotEnoughSpace, get(key)        *)
(* returns value on return, and the dropped entry is a different entry     *)
(* that was stored in the table before the call.                           *)
(***************************************************************************)
C3_FailedInsertKeepsPair ==
    [][\A k \in Keys, v \in Values : \A r \in Draws(map, k) :
          (last'.op = "insert" /\ last'.key = k /\ last'.ret = "NotEnoughSpace"
           /\ Insert(k, v, r))
          => /\ get(mapAfter, k) = Some(v)
             /\ insert(map, k, v, r).dropped # [fingerprint |-> get_fai(k).fp, value |-> v]
             /\ \E s \in DOMAIN buckets : buckets[s] = insert(map, k, v, r).dropped]_vars

(***************************************************************************)
(* C4: inserting a key that is already in the map with a different value   *)
(* leaves exactly one candidate slot holding the key's fingerprint, get    *)
(* returns the second value, and len() is what it was before.              *)
(***************************************************************************)
C4_ReinsertIdempotent ==
    [][\A k \in Keys, v \in Values : \A r \in Draws(map, k) :
          (last'.op = "insert" /\ last'.key = k /\ Insert(k, v, r)
           /\ get(map, k).some /\ get(map, k).value # v)
          => /\ Cardinality(SlotsHolding(mapAfter, k)) = 1
             /\ get(mapAfter, k) = Some(v)
             /\ len' = len]_vars

(***************************************************************************)
(* C5: after delete(key) returned true, get(key) returns None, an insert   *)
(* of the key returns Ok, and that insert does what a first insertion      *)
(* does: it fills one empty candidate slot with the key's entry, leaves    *)
(* the other buckets alone and counts one more entry.                      *)
(***************************************************************************)
C5_DeleteInsertSymmetry ==
    [][\A k \in Keys :
          (last'.op = "delete" /\ last'.key = k /\ last'.ret = "true" /\ Delete(k))
          => /\ get(mapAfter, k) = None
             /\ \A v \in Values : \A r \in Draws(mapAfter, k) :
                   LET res == insert(mapAfter, k, v, r)
                   IN  /\ res.ret = "Ok"
                       /\ res.m.len = len' + 1
                       /\ \E s \in SlotsHolding(res.m, k) :
                             /\ FingerprintIsEmpty(buckets'[s].fingerprint)
                             /\ res.m.buckets[s].value = v
                             /\ Changed(res.m.buckets, buckets') = {s}]_vars

(***************************************************************************)
(* C6: after clear(), whatever the state it was called in, is_empty() is   *)
(* true, density() is 0, len() is 0 and get returns None for every key.    *)
(***************************************************************************)
C6_ClearResets ==
    last.op = "clear"
    => /\ is_empty(map)
       /\ DensityIsZero(map)
       /\ len = 0
       /\ \A k \in Keys : get(map, k) = None

\* clear() ran on a map that held entries
C6_Witness == last.op = "clear" /\ last.ret = "cleared"

(***************************************************************************)
(* C7: after a run of inserts of distinct keys into a fresh map that stops *)
(* at the first NotEnoughSpace, get returns Some for every key whose       *)
(* insert returned Ok.                                                     *)
(***************************************************************************)
C7_RunKeysPresent == run.on => \A k \in run.ok : get(map, k).some

(***************************************************************************)
(* C8: called in any reachable state, test_and_add(key, value) returns     *)
(* Ok(false) and changes no bucket and not len when get(key) returns Some  *)
(* beforehand; otherwise it does exactly what insert(key, value) does and  *)
(* returns Ok(true) when insert returns Ok and NotEnoughSpace when insert  *)
(* fails.                                                                  *)
(***************************************************************************)
C8_TestAndAdd ==
    \A k \in Keys, v \in Values : \A r \in Draws(map, k) :
        \E t \in {test_and_add(map, k, v, r)} :
            IF get(map, k).some
            THEN t.ret = "OkFalse" /\ t.m.buckets = buckets /\ t.m.len = len
            ELSE \E res \in {insert(map, k, v, r)} :
                    /\ t.m = res.m
                    /\ t.ret = IF res.ret = "Ok" THEN "OkTrue" ELSE "NotEnoughSpace"

\* test_and_add found the key and returned Ok(false)
C8_Witness == last.op = "test_and_add" /\ last.ret = "OkFalse" /\ len > 0

(***************************************************************************)
(* C9: every insert returns Ok or NotEnoughSpace after at most             *)
(* MAX_REBUCKET iterations of the eviction loop.                           *)
(***************************************************************************)
C9_InsertTerminates ==
    last.op = "insert"
    => /\ last.ret \in {"Ok", "NotEnoughSpace"}
       /\ last.steps <= MAX_REBUCKET
       /\ (last.ret = "NotEnoughSpace" => last.steps = MAX_REBUCKET)

\* an insert ran the eviction loop to its last iteration and failed
C9_Witness == last.op = "insert" /\ last.ret = "NotEnoughSpace" /\ last.steps = MAX_REBUCKET

(***************************************************************************)
(* C10: delete(key) returns true exactly when get(key) returns Some        *)
(* before it; when it returns true exactly one bucket is emptied (the i1   *)
(* slot if it matches, otherwise the i2 slot) and len decreases by 1;      *)
(* when it returns false no bucket and not len changes.                    *)
(***************************************************************************)
C10_Delete ==
    [][last'.op = "delete"
       => \A k \in {last'.key} :
             Delete(k)
             => LET fai == get_fai(k)
                    n == NumBuckets(buckets)
                    s == IF buckets[fai.i1 % n].fingerprint = fai.fp
                         THEN fai.i1 % n ELSE fai.i2 % n
                IN  /\ (last'.ret = "true") = get(map, k).some
                    /\ last'.ret = "true"
                       => /\ buckets' = [buckets EXCEPT ![s].fingerprint = FingerprintEmpty]
                          /\ n_filled_buckets(mapAfter) = n_filled_buckets(map) - 1
                          /\ len' = len - 1
                    /\ last'.ret = "false" => (buckets' = buckets /\ len' = len)]_vars

\* a delete found the key and returned true
C10_Witness == last.op = "delete" /\ last.ret = "true"

(***************************************************************************)
(* C11: for every requested capacity n, with_capacity(n) builds a table of *)
(* empty buckets whose slot count is the smallest power of two that is at  *)
(* least 1 and at least n, with len() == 0; no later operation changes the *)
(* slot count.                                                             *)
(***************************************************************************)
IsPowerOfTwo(c) == \E e \in 0..UsizeBits : c = 2 ^ e

\* the table with_capacity is to build for the requested capacity n
RoundedTable(n) ==
    LET c == NumBuckets(buckets)
    IN  /\ DOMAIN buckets = 0..(c - 1)
        /\ \A s \in DOMAIN buckets : buckets[s] = BucketNew
        /\ IsPowerOfTwo(c) /\ c >= 1 /\ c >= n
        /\ \A d \in 1..(c - 1) : ~(IsPowerOfTwo(d) /\ d >= n)
        /\ len = 0

SlotCountKept == [][NumBuckets(buckets') = NumBuckets(buckets)]_vars

C11_CapacityRounding ==
    /\ [](last.op = "with_capacity" => RoundedTable(last.cap))
    /\ SlotCountKept

\* C11 as amended: the same for every requested capacity n for which a power
\* of two that is at least n is a usize (n <= 2 ^ (UsizeBits - 1)).
C11_CapacityRoundingRepresentable ==
    /\ [](last.op = "with_capacity" /\ last.cap <= 2 ^ (UsizeBits - 1)
          => RoundedTable(last.cap))
    /\ SlotCountKept

\* a map built for a capacity that is not a power of two and was rounded up
C11_Witness ==
    /\ last.op = "with_capacity"
    /\ last.cap = 2 ^ (UsizeBits - 1) - 1
    /\ NumBuckets(buckets) = 2 ^ (UsizeBits - 1)

(***************************************************************************)
(* C12: get(key) returns the value stored at slot i1 mod len when that     *)
(* slot's fingerprint equals the key's fingerprint, otherwise the value    *)
(* stored at slot i2 mod len when that slot's fingerprint equals it,       *)
(* otherwise None; it never changes any bucket or len.                     *)
(***************************************************************************)
C12_Get ==
    [][last'.op = "get" =>
        \A k \in {last'.key} :
            LET fai == get_fai(k)
                n == NumBuckets(buckets)
                first == buckets[fai.i1 % n]
                second == buckets[fai.i2 % n]
            IN  /\ first.fingerprint = fai.fp
                   => last'.ret = "Some" /\ last'.value = first.value
                /\ first.fingerprint # fai.fp /\ second.fingerprint = fai.fp
                   => last'.ret = "Some" /\ last'.value = second.value
                /\ first.fingerprint # fai.fp /\ second.fingerprint # fai.fp
                   => last'.ret = "None"
                /\ buckets' = buckets
                /\ len' = len]_vars

\* get found the key in both candidate slots, with different values
C12_Witness ==
    /\ last.op = "get"
    /\ last.ret = "Some"
    /\ \E k \in {last.key} :
         LET fai == get_fai(k)
             n == NumBuckets(buckets)
         IN  /\ buckets[fai.i1 % n].fingerprint = fai.fp
             /\ buckets[fai.i2 % n].fingerprint = fai.fp
             /\ buckets[fai.i1 % n].value # buckets[fai.i2 % n].value

(***************************************************************************)
(* C14: across all map operations each bucket only makes the transitions   *)
(* Empty to Occupied(fp,v) by a successful set, Occupied(fp,v) to          *)
(* Occupied(fp,v') by a set with the same fingerprint, Occupied to Empty   *)
(* by delete of its own fingerprint or by clear; no operation (the         *)
(* eviction chain of insert included) changes an occupied bucket's         *)
(* fingerprint to a different non-empty fingerprint, and a set with a      *)
(* different fingerprint on an occupied bucket returns false and leaves    *)
(* fingerprint and value untouched.                                        *)
(***************************************************************************)
\* the fingerprints of the keys
KeyFingerprints == {get_fai(k).fp : k \in Keys}

Inserting == last'.op \in {"insert", "test_and_add"}

\* the state of a bucket: Empty (whatever value bytes delete left behind) or
\* Occupied(fp, v)
StateOf(b) == IF FingerprintIsEmpty(b.fingerprint) THEN BucketNew ELSE b

\* the transitions of slot s by set, delete and clear
ListedTransition(s) ==
    LET old == buckets[s]
        new == buckets'[s]
    IN  \/ StateOf(new) = StateOf(old)
        \/ /\ FingerprintIsEmpty(old.fingerprint)
           /\ ~FingerprintIsEmpty(new.fingerprint)
           /\ Inserting
        \/ /\ ~FingerprintIsEmpty(old.fingerprint)
           /\ new.fingerprint = old.fingerprint
           /\ Inserting
        \/ /\ ~FingerprintIsEmpty(old.fingerprint)
           /\ FingerprintIsEmpty(new.fingerprint)
           /\ \/ last'.op = "clear"
              \/ last'.op = "delete" /\ get_fai(last'.key).fp = old.fingerprint

\* the overwrite of the eviction loop: an occupied slot takes another entry
EvictionOverwrite(s) ==
    /\ ~FingerprintIsEmpty(buckets[s].fingerprint)
    /\ ~FingerprintIsEmpty(buckets'[s].fingerprint)
    /\ Inserting
    /\ last'.steps > 0

\* set with a different fingerprint on an occupied bucket is rejected
SetRejected ==
    \A s \in DOMAIN buckets, fp \in KeyFingerprints, v \in Values :
        ~FingerprintIsEmpty(buckets[s].fingerprint) /\ buckets[s].fingerprint # fp
        => BucketSet(buckets[s], fp, v) = <<buckets[s], FALSE>>

C14_BucketTransitions ==
    [][SetRejected /\ \A s \in DOMAIN buckets : ListedTransition(s)]_vars

\* C14 as amended: the listed transitions are the only ones outside the
\* eviction chain of insert, which overwrites the occupied bucket at its
\* index with the entry in hand; set with a different fingerprint on an
\* occupied bucket returns false and leaves the bucket untouched.
C14_BucketTransitionsButEviction ==
    [][SetRejected
       /\ \A s \in DOMAIN buckets : ListedTransition(s) \/ EvictionOverwrite(s)]_vars

\* an eviction chain that ended with Ok in a full table of several slots
C14_Witness ==
    /\ last.op = "insert"
    /\ last.ret = "Ok"
    /\ last.steps > 0
    /\ NumBuckets(buckets) > 1

(***************************************************************************)
(* C15: the alternate-index function is an involution that survives        *)
(* reduction to a table slot: for every index i, fingerprint fp and        *)
(* power-of-two table length len, alt(alt(i, fp), fp) == i, and the slot   *)
(* alt(i, fp) mod len has slot i mod len as its alternate, so an entry     *)
(* kicked by the eviction chain is always moved to the other candidate     *)
(* slot of the key that stored it.                                         *)
(***************************************************************************)
AltInvolution ==
    \A i \in 0..MaxIndex, fp \in KeyFingerprints :
        LET n == NumBuckets(buckets)
        IN  /\ get_alt_index(fp, get_alt_index(fp, i)) = i
            /\ get_alt_index(fp, get_alt_index(fp, i) % n) % n = i % n

\* the eviction loop at index i with the entry of key k in hand
LoopAt(i, k) ==
    [m |-> map, i |-> i,
     current_bucket |-> [fingerprint |-> get_fai(k).fp, value |-> 0],
     ret |-> "NotEnoughSpace", steps |-> 0, from |-> 0]

\* the candidate slot of the key with fai other than slot s
OtherSlot(fai, s) ==
    LET n == NumBuckets(buckets)
    IN  IF s = fai.i1 % n THEN fai.i2 % n ELSE fai.i1 % n

\* an iteration of the loop that kicks the entry of key k out of a candidate
\* slot of k tries to put it into the other candidate slot of k
KickedToOtherSlot ==
    \A i \in 0..MaxIndex, h \in Keys :
        \A next \in {RebucketStep(LoopAt(i, h)).i} :
            \A k \in Keys :
                LET n == NumBuckets(buckets)
                    fai == get_fai(k)
                IN  /\ buckets[i % n].fingerprint = fai.fp
                    /\ i % n \in {fai.i1 % n, fai.i2 % n}
                    => next % n = OtherSlot(fai, i % n)

C15_AltIndex == AltInvolution /\ KickedToOtherSlot

\* test_and_add went through the eviction loop and a kicked entry found room
C15_Witness ==
    /\ last.op = "test_and_add"
    /\ last.ret = "OkTrue"
    /\ last.steps > 0

(***************************************************************************)
(* C16: Fingerprint::from_data returns None exactly when the bytes equal   *)
(* the empty sentinel and Some(fingerprint with those bytes) otherwise, so *)
(* that in every reachable map state a bucket is unoccupied if and only if *)
(* its fingerprint equals the sentinel, and no insert ever stores the      *)
(* sentinel as a key's fingerprint.                                        *)
(***************************************************************************)
FromDataExact ==
    \A data \in 0..(ByteRange - 1) :
        /\ from_data(data).some <=> data # EMPTY_FINGERPRINT
        /\ from_data(data).some => from_data(data).fp = data

\* every bucket an insert writes is occupied afterwards, and the key of an
\* insert that returned Ok sits in an occupied bucket
StoresNoSentinel ==
    Inserting =>
        /\ \A s \in DOMAIN buckets :
               buckets'[s] # buckets[s] => ~FingerprintIsEmpty(buckets'[s].fingerprint)
        /\ last'.ret \in {"Ok", "OkTrue"} =>
               \E s \in SlotsHolding(mapAfter, last'.key) :
                   ~FingerprintIsEmpty(buckets'[s].fingerprint)

C16_Sentinel == [](FromDataExact) /\ [][StoresNoSentinel]_vars

\* the key whose hash bytes equal the sentinel has been inserted
C16_Witness ==
    /\ last.op = "insert"
    /\ last.ret = "Ok"
    /\ KeyHash(last.key)[1] = EMPTY_FINGERPRINT

(***************************************************************************)
(* C17: in every reachable state len is at least the number of occupied    *)
(* buckets (the counter never undercounts): hence the len -= 1 in remove   *)
(* never underflows, and is_empty() being true implies every bucket is     *)
(* empty, so the early return of clear() never leaves an occupied bucket   *)
(* behind.                                                                 *)
(***************************************************************************)
C17_LenNeverUndercounts ==
    /\ len >= n_filled_buckets(map)
    /\ \A k \in Keys : delete(map, k).m.len >= 0
    /\ is_empty(map) => n_filled_buckets(map) = 0
    /\ n_filled_buckets(clear(map)) = 0

\* clear took its early return on a map whose counter had gone up and down
C17_Witness ==
    /\ last.op = "clear"
    /\ last.ret = "early"
    /\ \E s \in DOMAIN buckets : buckets[s] # BucketNew

(***************************************************************************)
(* C18: whenever insert returns Ok, by direct placement or after an        *)
(* eviction chain, every key for which get returned Some immediately       *)
(* before the call still gets Some immediately after it, and get of the    *)
(* inserted key returns the inserted value.                                *)
(***************************************************************************)
C18_OkInsertKeepsKeys ==
    \A k \in Keys, v \in Values :
        \A r \in Draws(map, k) :
            \A res \in {insert(map, k, v, r)} :
                res.ret = "Ok"
                => /\ \A x \in Keys : get(map, x).some => get(res.m, x).some
                   /\ get(res.m, k) = Some(v)

\* an insert returned Ok after an eviction chain of several kicks and another
\* key is found
C18_Witness ==
    /\ last.op = "insert"
    /\ last.ret = "Ok"
    /\ last.steps > 1
    /\ \E x \in Keys \ {last.key} : get(map, x).some

(***************************************************************************)
(* C19: in every reachable state every occupied bucket at slot p holds the *)
(* fingerprint of some inserted key for which p is one of that key's two   *)
(* candidate slots (i1 mod len or i2 mod len); the eviction chain only     *)
(* ever writes an entry into one of its own candidate slots.               *)
(***************************************************************************)
\* slot p is a candidate slot of a key with the fingerprint that bucket b holds
AtCandidateSlot(b, p) ==
    \E k \in Keys :
        LET fai == get_fai(k)
            n == NumBuckets(buckets)
        IN  b.fingerprint = fai.fp /\ p \in {fai.i1 % n, fai.i2 % n}

C19_EntriesAtCandidateSlots ==
    \A p \in DOMAIN buckets :
        ~FingerprintIsEmpty(buckets[p].fingerprint) => AtCandidateSlot(buckets[p], p)

\* an eviction chain of several kicks has written entries in a table of more
\* than two slots
C19_Witness ==
    /\ last.op \in {"insert", "test_and_add"}
    /\ last.steps > 1
    /\ NumBuckets(buckets) > 2
    /\ n_filled_buckets(map) > 2

(***************************************************************************)
(* C20: when insert returns NotEnoughSpace, the number of occupied buckets *)
(* and len are the same as before the call, and the multiset of stored     *)
(* (fingerprint, value) entries equals the multiset before the call plus   *)
(* the inserted entry minus exactly one entry (the last one displaced by   *)
(* the chain).                                                             *)
(***************************************************************************)
\* the entries that can be stored
Entries == {[fingerprint |-> fp, value |-> v] : fp \in KeyFingerprints, v \in Values}

\* how many buckets of m hold entry e
CountOf(m, e) == Cardinality({s \in DOMAIN m.buckets : m.buckets[s] = e})

One(b) == IF b THEN 1 ELSE 0

C20_FailedInsertSwapsOneEntry ==
    \A k \in Keys, v \in Values :
        \A r \in Draws(map, k) :
            \A res \in {insert(map, k, v, r)} :
                res.ret = "NotEnoughSpace"
                => /\ n_filled_buckets(res.m) = n_filled_buckets(map)
                   /\ res.m.len = len
                   /\ res.dropped \in Entries
                   /\ \A e \in Entries :
                          CountOf(res.m, e)
                          = CountOf(map, e)
                            + One(e = [fingerprint |-> get_fai(k).fp, value |-> v])
                            - One(e = res.dropped)

\* an insert gave up in a table of several slots and dropped another key's entry
C20_Witness ==
    /\ last.op = "insert"
    /\ last.ret = "NotEnoughSpace"
    /\ NumBuckets(buckets) > 1
    /\ get(map, last.key).some

====
